---- MODULE Spec2Model ----
(***************************************************************************)
(* Life-plan simulator: the multi-asset trajectory simulation engine       *)
(* (runMonteCarloSimulation, runHistoricalSimulation), the historical      *)
(* reference data with validateSimulationPeriod, and the hook that         *)
(* dispatches a run.                                                       *)
(*                                                                         *)
(* JavaScript numbers are modelled as exact rationals <<n, d>> in lowest   *)
(* terms with d > 0, extended with the IEEE specials NaN = <<0, 0>>,       *)
(* +Infinity = <<1, 0>> and -Infinity = <<-1, 0>>.  Rounding of doubles is *)
(* not modelled; signed zero is not modelled.                              *)
(***************************************************************************)
EXTENDS Integers, Sequences, FiniteSets, TLC

VARIABLES params, pc, sim, year, hold, costs, traj, results, chartData,
          chartYear, validation, probe, prev, runs,
          storage, savedSettings, savedAs, notice, clock, edits, advice

\* the state of the settings panel: the local storage item, the list the
\* panel shows, the parameters last saved under each name, the last alert,
\* the number of saves and the number of edits of the form
\* localStorage.getItem gives null when nothing was stored under the key
NoItem == [stored |-> FALSE]

\* no alert was shown by the last handler
NoNotice == [type |-> "none"]

\* generateAdvice has not been called
NoAdvice == [state |-> "none"]

settingsVars == <<storage, savedSettings, savedAs, notice, clock, edits>>

vars == <<params, pc, sim, year, hold, costs, traj, results, chartData,
          chartYear, validation, probe, prev, runs, settingsVars, advice>>

----------------------------------------------------------------------------
(* JavaScript number arithmetic                                            *)

Abs(n) == IF n < 0 THEN -n ELSE n

Sign(n) == IF n < 0 THEN -1 ELSE IF n > 0 THEN 1 ELSE 0

RECURSIVE GCD(_, _)
GCD(a, b) == IF b = 0 THEN a ELSE GCD(b, a % b)

\* n/d with the common factor g removed and the sign s moved to n
Reduce(n, d, g, s) == <<(s * n) \div g, (s * d) \div g>>

Norm(n, d) ==
  IF d = 0 THEN <<Sign(n), 0>>
  ELSE Reduce(n, d, GCD(Abs(n), Abs(d)), IF d < 0 THEN -1 ELSE 1)

Num(n) == <<n, 1>>

NaN == <<0, 0>>

IsNaN(x) == x = NaN

IsFiniteNum(x) == x[2] # 0

\* least common denominator of two finite numbers
Lcd(x, y) == (x[2] \div GCD(x[2], y[2])) * y[2]

\* the sum of two finite numbers over their common denominator l
AddOver(x, y, l) == Norm(x[1] * (l \div x[2]) + y[1] * (l \div y[2]), l)

Add(x, y) ==
  IF IsNaN(x) \/ IsNaN(y) THEN NaN
  ELSE IF ~IsFiniteNum(x) /\ ~IsFiniteNum(y) THEN (IF x = y THEN x ELSE NaN)
  ELSE IF ~IsFiniteNum(x) THEN x
  ELSE IF ~IsFiniteNum(y) THEN y
  ELSE AddOver(x, y, Lcd(x, y))

Neg(x) == <<-x[1], x[2]>>

Sub(x, y) == Add(x, Neg(y))

NonZero(g) == IF g = 0 THEN 1 ELSE g

\* the product of two finite numbers, the cross factors h1 and h2 removed
\* before multiplying
MulReduced(x, y, h1, h2) ==
  Norm((x[1] \div h1) * (y[1] \div h2), (x[2] \div h2) * (y[2] \div h1))

Mul(x, y) ==
  IF IsNaN(x) \/ IsNaN(y) THEN NaN
  ELSE IF ~IsFiniteNum(x) \/ ~IsFiniteNum(y)
       THEN <<Sign(x[1]) * Sign(y[1]), 0>>
  ELSE MulReduced(x, y, NonZero(GCD(Abs(x[1]), y[2])),
                        NonZero(GCD(Abs(y[1]), x[2])))

Div(x, y) ==
  IF IsNaN(x) \/ IsNaN(y) THEN NaN
  ELSE IF ~IsFiniteNum(y)
       THEN (IF IsFiniteNum(x) THEN Num(0) ELSE NaN)
  ELSE IF ~IsFiniteNum(x) THEN <<x[1] * (IF y[1] < 0 THEN -1 ELSE 1), 0>>
  ELSE IF y[1] = 0 THEN <<Sign(x[1]), 0>>
  ELSE Mul(x, Norm(y[2], y[1]))

\* x < y for two finite numbers over their common denominator l
LtOver(x, y, l) == x[1] * (l \div x[2]) < y[1] * (l \div y[2])

\* x < y as JavaScript evaluates it: false when either side is NaN
Lt(x, y) ==
  IF IsNaN(x) \/ IsNaN(y) THEN FALSE
  ELSE IF ~IsFiniteNum(x) THEN x[1] < 0 /\ y # x
  ELSE IF ~IsFiniteNum(y) THEN y[1] > 0
  ELSE LtOver(x, y, Lcd(x, y))

Gt(x, y) == Lt(y, x)

\* x <= y as JavaScript evaluates it: false when either side is NaN
Le(x, y) == ~IsNaN(x) /\ ~IsNaN(y) /\ ~Lt(y, x)

\* Math.min(x, y): NaN when either argument is NaN
MathMin(x, y) ==
  IF IsNaN(x) \/ IsNaN(y) THEN NaN ELSE IF Lt(y, x) THEN y ELSE x

\* Math.floor of a finite number, as an integer
MathFloor(x) == x[1] \div x[2]

\* the || operator on numbers: the right operand replaces 0 and NaN
OrElse(x, dflt) == IF IsNaN(x) \/ x = Num(0) THEN dflt ELSE x

----------------------------------------------------------------------------
(* Historical reference data, in units of 1/10000 (0.0131 is 131)          *)

sp500Returns ==
  <<131, 3756, 2296, 3336, 2858, 2104, -910, -1189, -2210, 2868,
    1088, 491, 1579, 549, -3700, 2646, 1506, 211, 1600, 3239,
    1369, 138, 1196, 2183, -438, 3157, 1840, 2889, -1825, 2626>>

japanInflationRates ==
  <<70, -10, 10, 180, 70, -30, -70, -70, -90, -30,
    0, -30, 20, 10, 140, -140, -70, -30, 0, 40,
    270, 80, -10, 50, 100, 50, 0, -20, 240, 320>>

cryptoReturns ==
  <<131, 3756, 2296, 3336, 2858, 2104, -910, -1189, -2210, 2868,
    1088, 491, 1579, 549, -3700, 2646, 1506, 211, 160, 3239,
    -5817, 3533, 12500, 13318, -7269, 8700, 30017, 5973, -6426, 15648>>

cryptoDataStartIndex == 20

\* historicalYears = Array.from({ length: 30 }, (_, i) => 1994 + i)
historicalYears == [i \in 1..30 |-> 1994 + (i - 1)]

\* data[index] of a JavaScript array (index from 0); undefined reads as NaN
\* under the || and isNaN tests that follow every lookup
At(data, index) ==
  IF index + 1 \in DOMAIN data THEN Norm(data[index + 1], 10000) ELSE NaN

\* the stock series of the selected region
getStockData(region) == sp500Returns

\* the inflation series of the selected region
getInflationData(region) == japanInflationRates

InvalidPeriodMessage == "max-period-exceeded"

validateSimulationPeriod(startAge, endAge) ==
  LET simulationPeriod == endAge - startAge
      maxPeriod == Len(historicalYears)
  IN  IF simulationPeriod > maxPeriod
      THEN [isValid |-> FALSE, maxEndAge |-> startAge + maxPeriod,
            message |-> InvalidPeriodMessage]
      ELSE [isValid |-> TRUE, maxEndAge |-> endAge, message |-> ""]

----------------------------------------------------------------------------
(* Parameter sets the engine is run on.  Money is in units of one million  *)
(* yen.                                                                    *)

MaxSims == 2

MaxPeriod == 2

\* tax/fee rates <<stock, crypto>>: no tax, rates below 1 (the convention
\* of the hook's defaults, 0.10 and 0.30) and rates above 1 (the convention
\* of the first App defaults, 1.1 and 1.3)
TaxRates ==
  { <<Num(0), Num(0)>>,
    <<Norm(1, 10), Norm(1, 5)>>,
    <<Norm(5, 4), Num(2)>> }

Priorities == {"crypto", "stock", "random"}

Methods == {"montecarlo", "historical"}

\* every rate and flow at 0: only the shape of the run is exercised
ZeroParams ==
  [ initialAge |-> 30, retirementAge |-> 65, endAge |-> 31,
    loanDuration |-> 0, medicalCareStartAge |-> 75,
    entertainmentExpensesDeclineStartAge |-> 75,
    entertainmentExpensesDeclineRate |-> Norm(1, 10),
    inflationRate |-> Num(0),
    investmentReturnRate |-> Num(0), investmentRisk |-> Num(0),
    cryptoReturnRate |-> Num(0), cryptoRisk |-> Num(0),
    stockTaxRate |-> Norm(1, 10), cryptoTaxRate |-> Norm(3, 10),
    cashUpperLimit |-> Num(4), cashLowerLimit |-> Num(2),
    cryptoLowerLimit |-> Num(1), stockLowerLimit |-> Num(3),
    liquidationPriority |-> "crypto",
    initialStockValue |-> Num(0), initialCryptoValue |-> Num(0),
    initialCashValue |-> Num(3),
    livingExpenses |-> Num(0), entertainmentExpenses |-> Num(0),
    housingMaintenance |-> Num(0), medicalCare |-> Num(0),
    housingLoan |-> Num(0), salary |-> Num(0), realEstateIncome |-> Num(0),
    numSimulations |-> 1, simulationMethod |-> "montecarlo",
    inflationRegion |-> "japan", stockRegion |-> "sp500" ]

\* a household with income, every expense category and market exposure
WorkingParams ==
  [ ZeroParams EXCEPT
      !.retirementAge = 30, !.loanDuration = 1, !.medicalCareStartAge = 31,
      !.entertainmentExpensesDeclineStartAge = 31,
      !.inflationRate = Norm(1, 10),
      !.cryptoReturnRate = Norm(1, 2),
      !.initialStockValue = Num(4), !.initialCryptoValue = Num(2),
      !.livingExpenses = Num(1), !.entertainmentExpenses = Num(1),
      !.medicalCare = Num(1), !.housingLoan = Num(1),
      !.salary = Num(2), !.realEstateIncome = Num(1) ]

\* holdings only: no income, no expenses
IdleParams ==
  [ ZeroParams EXCEPT
      !.initialStockValue = Num(4), !.initialCryptoValue = Num(2) ]

\* short Monte Carlo runs without a risk band, with every rebalancing rule
\* in play
CalmParams ==
  { [ base EXCEPT
        !.simulationMethod = "montecarlo", !.endAge = base.initialAge + p,
        !.numSimulations = n,
        !.stockTaxRate = t[1], !.cryptoTaxRate = t[2],
        !.liquidationPriority = lp, !.initialCashValue = Num(c) ] :
      base \in {WorkingParams, IdleParams},
      p \in 1..MaxPeriod, n \in 1..MaxSims,
      t \in TaxRates, lp \in Priorities, c \in {0, 3, 6} }

\* <<simulationPeriod, numSimulations>> of the runs with a risk band: one
\* trajectory of every period, every number of one-year trajectories, and
\* two trajectories of two years
RiskyShapes ==
  { <<p, 1>> : p \in 1..MaxPeriod } \cup { <<1, n>> : n \in 1..MaxSims }
    \cup { <<2, 2>> }

\* short Monte Carlo runs of the working household with a risk band on both
\* assets
RiskyParams ==
  { [ WorkingParams EXCEPT
        !.simulationMethod = "montecarlo",
        !.endAge = WorkingParams.initialAge + shape[1],
        !.numSimulations = shape[2],
        !.investmentRisk = Norm(1, 2), !.cryptoRisk = Norm(1, 2),
        !.stockTaxRate = t[1], !.cryptoTaxRate = t[2],
        !.liquidationPriority = lp, !.initialCashValue = Num(c) ] :
      shape \in RiskyShapes,
      t \in TaxRates, lp \in {"crypto", "stock"}, c \in {0, 6} }

MonteCarloParams == CalmParams \cup RiskyParams

\* the periods of the short historical runs: the exact products of the
\* four-decimal series over two years are the largest that fit the
\* integers of the model checker
HistoricalPeriods == {1, 2}

\* short historical runs with every rebalancing rule in play
HistoricalParams ==
  { [ base EXCEPT
        !.simulationMethod = "historical", !.endAge = base.initialAge + p,
        !.stockTaxRate = t[1], !.cryptoTaxRate = t[2],
        !.liquidationPriority = lp, !.initialCashValue = Num(c) ] :
      base \in {WorkingParams, IdleParams}, p \in HistoricalPeriods,
      t \in TaxRates, lp \in Priorities, c \in {0, 3, 6} }

\* long runs: <<initialAge, endAge>> with periods of 30, 31, 70, 100 and 101
LongAges == { <<30, 60>>, <<30, 61>>, <<30, 100>>, <<20, 120>>, <<19, 120>> }

\* long runs hold cash only, inside its bounds, so that no year changes a
\* holding
LongParams ==
  { [ ZeroParams EXCEPT
        !.simulationMethod = m, !.initialAge = a[1], !.endAge = a[2],
        !.cryptoLowerLimit = Num(0), !.stockLowerLimit = Num(0) ] :
      m \in Methods, a \in LongAges }

\* entertainmentExpensesDeclineRate: no decline and a decline by half
DeclineRates == {Num(0), Norm(1, 2)}

\* the working household with another decline rate, the decline starting in
\* the first or in the second year
DeclineParams ==
  { [ WorkingParams EXCEPT
        !.simulationMethod = m, !.endAge = WorkingParams.initialAge + p,
        !.entertainmentExpensesDeclineRate = r,
        !.entertainmentExpensesDeclineStartAge = WorkingParams.initialAge + a ] :
      m \in Methods, p \in HistoricalPeriods, r \in DeclineRates, a \in {0, 1} }

\* holdings on the edges of their bounds: cash at its lower or upper limit,
\* stock and crypto at their floors or above
EdgeParams ==
  { [ IdleParams EXCEPT
        !.endAge = IdleParams.initialAge + p,
        !.initialCashValue = c, !.initialStockValue = s,
        !.initialCryptoValue = k ] :
      p \in 1..MaxPeriod,
      c \in {IdleParams.cashLowerLimit, IdleParams.cashUpperLimit},
      s \in {IdleParams.stockLowerLimit, Num(4)},
      k \in {IdleParams.cryptoLowerLimit, Num(2)} }

\* the 'random' priority with a cash surplus and each asset above or below
\* its own floor
RandomCeilingParams ==
  { [ IdleParams EXCEPT
        !.liquidationPriority = "random", !.initialCashValue = Num(6),
        !.initialStockValue = s, !.initialCryptoValue = k ] :
      s \in {Num(2), Num(4)}, k \in {Norm(1, 2), Num(2)} }

\* the working household with a loan that runs through the second year
LoanParams ==
  { [ WorkingParams EXCEPT
        !.simulationMethod = m, !.endAge = WorkingParams.initialAge + 2,
        !.loanDuration = 2, !.initialCashValue = Num(c) ] :
      m \in Methods, c \in {3, 6} }

ParamSets ==
  MonteCarloParams \cup HistoricalParams \cup LongParams \cup DeclineParams
    \cup EdgeParams \cup RandomCeilingParams \cup LoanParams

----------------------------------------------------------------------------
(* One simulated year: the body of the year loop, shared by both methods   *)

simulationPeriod(p) == p.endAge - p.initialAge

Holdings(stock, crypto, cash) ==
  [stock |-> stock, crypto |-> crypto, cash |-> cash]

totalAssets(h) == Add(Add(h.stock, h.crypto), h.cash)

\* applyReturns with the holdings multiplied by the return alone
applyReturnsRateOnly(h, stockReturn, cryptoReturn) ==
  [h EXCEPT !.stock = Mul(@, stockReturn), !.crypto = Mul(@, cryptoReturn)]

\* stockValue *= (1 + stockAnnualReturn); cryptoValue *= (1 + cryptoAnnualReturn)
applyReturns(h, stockReturn, cryptoReturn) ==
  [h EXCEPT !.stock = Mul(@, Add(Num(1), stockReturn)),
            !.crypto = Mul(@, Add(Num(1), cryptoReturn))]

income(p, currentAge, c) ==
  Add(IF currentAge <= p.retirementAge THEN p.salary ELSE Num(0), c.realEstate)

\* the entertainment expense of the year, after the decline
declineEntertainment(p, currentAge, c) ==
  IF currentAge >= p.entertainmentExpensesDeclineStartAge
  THEN [c EXCEPT !.entertainment = Mul(@, Norm(9, 10))]
  ELSE c

expenses(p, yr, currentAge, c) ==
  Add(Add(Add(Add(c.living, c.entertainment), c.housing),
          IF currentAge >= p.medicalCareStartAge THEN c.medical ELSE Num(0)),
      IF yr - 1 < p.loanDuration THEN p.housingLoan ELSE Num(0))

\* the ceiling rule that buys stock with the surplus and keeps the cash
cashUpperRuleKeepsCash(p, h) ==
  IF Gt(h.cash, p.cashUpperLimit)
  THEN [h EXCEPT !.stock = Add(@, Sub(h.cash, p.cashUpperLimit))]
  ELSE h

\* if (cashValue > cashUpperLimit) { stockValue += surplus; cashValue = cashUpperLimit }
cashUpperRule(p, h) ==
  IF Gt(h.cash, p.cashUpperLimit)
  THEN LET surplus == Sub(h.cash, p.cashUpperLimit)
       IN  [h EXCEPT !.stock = Add(@, surplus), !.cash = p.cashUpperLimit]
  ELSE h

\* the closure liquidate(priorityAsset) over stockValue, cryptoValue,
\* cashValue and deficit (the field deficit of l)
assetValue(l, priorityAsset) ==
  IF priorityAsset = "crypto" THEN l.crypto ELSE l.stock

assetLowerLimit(p, priorityAsset) ==
  IF priorityAsset = "crypto" THEN p.cryptoLowerLimit ELSE p.stockLowerLimit

taxRate(p, priorityAsset) ==
  IF priorityAsset = "crypto" THEN p.cryptoTaxRate ELSE p.stockTaxRate

\* cryptoValue -= sellAmount (or stockValue); cashValue += cashGained;
\* deficit -= cashGained
sell(l, priorityAsset, sellAmount, cashGained) ==
  IF priorityAsset = "crypto"
  THEN [l EXCEPT !.crypto = Sub(@, sellAmount), !.cash = Add(@, cashGained),
                 !.deficit = Sub(@, cashGained)]
  ELSE [l EXCEPT !.stock = Sub(@, sellAmount), !.cash = Add(@, cashGained),
                 !.deficit = Sub(@, cashGained)]

\* const cashGained = sellAmount / taxRate
sellAmountOf(l, priorityAsset, rate, sellAmount) ==
  sell(l, priorityAsset, sellAmount, Div(sellAmount, rate))

\* if (availableToSell > 0) { sellAmount = Math.min(deficit * taxRate,
\* availableToSell); ... }
sellAvailable(l, priorityAsset, rate, availableToSell) ==
  IF Gt(availableToSell, Num(0))
  THEN sellAmountOf(l, priorityAsset, rate,
                    MathMin(Mul(l.deficit, rate), availableToSell))
  ELSE l

liquidate(p, l, priorityAsset) ==
  IF Le(l.deficit, Num(0)) THEN l
  ELSE sellAvailable(l, priorityAsset, taxRate(p, priorityAsset),
                     Sub(assetValue(l, priorityAsset),
                         assetLowerLimit(p, priorityAsset)))

\* liquidationOrder with a 'random' priority that alternates from one run to
\* the next
liquidationOrderAlternating(p) ==
  IF p.liquidationPriority = "crypto" THEN <<"crypto", "stock">>
  ELSE IF p.liquidationPriority = "random" /\ runs % 2 = 0
       THEN <<"crypto", "stock">>
  ELSE <<"stock", "crypto">>

\* the order in which the floor rule offers the shortfall to the assets
liquidationOrder(p) ==
  IF p.liquidationPriority = "crypto" THEN <<"crypto", "stock">>
  ELSE <<"stock", "crypto">>

\* if (cashValue < cashLowerLimit) { ... liquidate(first); liquidate(second) }
liquidateInOrder(p, l, order) ==
  liquidate(p, liquidate(p, l, order[1]), order[2])

\* the holdings the two liquidations leave
liquidated(l) == Holdings(l.stock, l.crypto, l.cash)

cashLowerRule(p, h) ==
  IF Lt(h.cash, p.cashLowerLimit)
  THEN liquidated(
         liquidateInOrder(p, [stock |-> h.stock, crypto |-> h.crypto,
                              cash |-> h.cash,
                              deficit |-> Sub(p.cashLowerLimit, h.cash)],
                          liquidationOrder(p)))
  ELSE h

\* the two asset floors: the deficit of an asset below its floor is taken
\* from cash
stockLowerRule(p, h) ==
  IF Lt(h.stock, p.stockLowerLimit)
  THEN [h EXCEPT !.cash = Sub(@, Sub(p.stockLowerLimit, h.stock)),
                 !.stock = Add(@, Sub(p.stockLowerLimit, h.stock))]
  ELSE h

cryptoLowerRule(p, h) ==
  IF Lt(h.crypto, p.cryptoLowerLimit)
  THEN [h EXCEPT !.cash = Sub(@, Sub(p.cryptoLowerLimit, h.crypto)),
                 !.crypto = Add(@, Sub(p.cryptoLowerLimit, h.crypto))]
  ELSE h

assetLowerRule(p, h) == cryptoLowerRule(p, stockLowerRule(p, h))

\* the values of the year loop's variables at each point of one iteration
yearFromLower(p, yr, h, c1, afterReturns, afterBalance, afterUpper, afterLower) ==
  [year |-> yr, start |-> h, afterReturns |-> afterReturns,
   afterBalance |-> afterBalance, afterUpper |-> afterUpper,
   afterLower |-> afterLower, final |-> assetLowerRule(p, afterLower),
   costs |-> c1]

yearFromUpper(p, yr, h, c1, afterReturns, afterBalance, afterUpper) ==
  yearFromLower(p, yr, h, c1, afterReturns, afterBalance, afterUpper,
                cashLowerRule(p, afterUpper))

yearFromBalance(p, yr, h, c1, afterReturns, afterBalance) ==
  yearFromUpper(p, yr, h, c1, afterReturns, afterBalance,
                cashUpperRule(p, afterBalance))

\* cashValue += annualBalance
yearFromReturns(p, yr, h, c1, afterReturns, annualBalance) ==
  yearFromBalance(p, yr, h, c1, afterReturns,
                  [afterReturns EXCEPT !.cash = Add(@, annualBalance)])

\* const annualBalance = income - expenses, the entertainment expense declined
yearAtAge(p, yr, currentAge, h, c, c1, stockReturn, cryptoReturn) ==
  yearFromReturns(p, yr, h, c1, applyReturns(h, stockReturn, cryptoReturn),
                  Sub(income(p, currentAge, c), expenses(p, yr, currentAge, c1)))

yearBody(p, yr, h, c, stockReturn, cryptoReturn) ==
  yearAtAge(p, yr, p.initialAge + yr - 1, h, c,
            declineEntertainment(p, p.initialAge + yr - 1, c),
            stockReturn, cryptoReturn)

\* every current expense and the real-estate income grow by the inflation
inflate(c, f) ==
  [living |-> Mul(c.living, f), entertainment |-> Mul(c.entertainment, f),
   housing |-> Mul(c.housing, f), medical |-> Mul(c.medical, f),
   realEstate |-> Mul(c.realEstate, f)]

\* applyInflation with the costs multiplied by the inflation rate alone
applyInflationRateOnly(c, inflationRate) == inflate(c, inflationRate)

applyInflation(c, inflationRate) == inflate(c, Add(Num(1), inflationRate))

initialHoldings(p) ==
  Holdings(p.initialStockValue, p.initialCryptoValue, p.initialCashValue)

initialCosts(p) ==
  [living |-> p.livingExpenses, entertainment |-> p.entertainmentExpenses,
   housing |-> p.housingMaintenance, medical |-> p.medicalCare,
   realEstate |-> p.realEstateIncome]

\* the four yearly arrays started empty, without the snapshot of year 0
initialYearlyEmpty(h) ==
  [total |-> << >>, stock |-> << >>, crypto |-> << >>, cash |-> << >>]

\* yearlyTotalAssets, yearlyStockValues, yearlyCryptoValues, yearlyCashValues
initialYearly(h) ==
  [total |-> <<totalAssets(h)>>, stock |-> <<h.stock>>,
   crypto |-> <<h.crypto>>, cash |-> <<h.cash>>]

pushYearly(t, h) ==
  [total |-> Append(t.total, totalAssets(h)), stock |-> Append(t.stock, h.stock),
   crypto |-> Append(t.crypto, h.crypto), cash |-> Append(t.cash, h.cash)]

----------------------------------------------------------------------------
(* Result processing                                                       *)

\* array[index] of a JavaScript array (index from 0); undefined reads as NaN
Elem(array, index) ==
  IF index + 1 \in DOMAIN array THEN array[index + 1] ELSE NaN

RECURSIVE insertAsc(_, _)
insertAsc(x, sorted) ==
  IF sorted = << >> THEN <<x>>
  ELSE IF Lt(x, Head(sorted)) THEN <<x>> \o sorted
  ELSE <<Head(sorted)>> \o insertAsc(x, Tail(sorted))

RECURSIVE sortAsc(_)
sortAsc(array) ==
  IF array = << >> THEN << >>
  ELSE insertAsc(array[Len(array)], sortAsc(SubSeq(array, 1, Len(array) - 1)))

arrangements(array) ==
  LET n == Len(array)
  IN  { [i \in 1..n |-> array[f[i]]] :
          f \in { g \in [1..n -> 1..n] : \A i, j \in 1..n : i # j => g[i] # g[j] } }

\* array.sort((a, b) => a - b): ascending order; with a NaN in the array the
\* comparator is inconsistent and the order is implementation-defined
sortResults(array) ==
  IF \E i \in DOMAIN array : IsNaN(array[i])
  THEN arrangements(array)
  ELSE {sortAsc(array)}

\* Math.floor(n * fraction)
floorOf(n, fraction) == MathFloor(Mul(Num(n), fraction))

\* sims.map(sim => sim[year]) of the Monte Carlo method
outcomesOf(sims, yr) == [i \in 1..Len(sims) |-> Elem(sims[i], yr)]

RECURSIVE definedOutcomes(_, _)
\* sims.map(sim => sim[year]).filter(val => val !== undefined && !isNaN(val))
definedOutcomes(sims, yr) ==
  IF sims = << >> THEN << >>
  ELSE LET rest == definedOutcomes(Tail(sims), yr)
           sim1 == Head(sims)
       IN  IF yr + 1 \in DOMAIN sim1 /\ ~IsNaN(sim1[yr + 1])
           THEN <<sim1[yr + 1]>> \o rest
           ELSE rest

column(sims, field) == [i \in 1..Len(sims) |-> sims[i][field]]

\* mcYearData with the age of the year before (initialAge + year - 1, the
\* currentAge of the year loop)
mcYearDataCurrentAge(p, yr, total, stock, crypto, cash) ==
  LET n == p.numSimulations
  IN  [year |-> yr, age |-> p.initialAge + yr - 1,
       median |-> Elem(total, n \div 2),
       p90 |-> Elem(total, floorOf(n, Norm(9, 10))),
       p75 |-> Elem(total, floorOf(n, Norm(3, 4))),
       p25 |-> Elem(total, floorOf(n, Norm(1, 4))),
       p10 |-> Elem(total, floorOf(n, Norm(1, 10))),
       medianStock |-> Elem(stock, n \div 2),
       medianCrypto |-> Elem(crypto, n \div 2),
       medianCash |-> Elem(cash, n \div 2)]

\* the YearlyData entry of the Monte Carlo method from the sorted outcomes
mcYearData(p, yr, total, stock, crypto, cash) ==
  LET n == p.numSimulations
  IN  [year |-> yr, age |-> p.initialAge + yr,
       median |-> Elem(total, n \div 2),
       p90 |-> Elem(total, floorOf(n, Norm(9, 10))),
       p75 |-> Elem(total, floorOf(n, Norm(3, 4))),
       p25 |-> Elem(total, floorOf(n, Norm(1, 4))),
       p10 |-> Elem(total, floorOf(n, Norm(1, 10))),
       medianStock |-> Elem(stock, n \div 2),
       medianCrypto |-> Elem(crypto, n \div 2),
       medianCash |-> Elem(cash, n \div 2)]

\* the YearlyData entry of the historical method from the sorted outcomes
historicalYearData(p, yr, total, stock, crypto, cash) ==
  LET numSims == Len(total)
  IN  [year |-> yr, age |-> p.initialAge + yr,
       median |-> OrElse(Elem(total, numSims \div 2), Num(0)),
       p90 |-> OrElse(Elem(total, floorOf(numSims, Norm(9, 10))), Num(0)),
       p75 |-> OrElse(Elem(total, floorOf(numSims, Norm(3, 4))), Num(0)),
       p25 |-> OrElse(Elem(total, floorOf(numSims, Norm(1, 4))), Num(0)),
       p10 |-> OrElse(Elem(total, floorOf(numSims, Norm(1, 10))), Num(0)),
       medianStock |-> OrElse(Elem(stock, Len(stock) \div 2), Num(0)),
       medianCrypto |-> OrElse(Elem(crypto, Len(crypto) \div 2), Num(0)),
       medianCash |-> OrElse(Elem(cash, Len(cash) \div 2), Num(0))]

----------------------------------------------------------------------------
(* The run                                                                 *)

\* the values Math.random() * 2 - 1 takes in the model
RandomFactors == {Num(-1), Norm(1, 2)}

NoHoldings == Holdings(Num(0), Num(0), Num(0))

NoCosts ==
  [living |-> Num(0), entertainment |-> Num(0), housing |-> Num(0),
   medical |-> Num(0), realEstate |-> Num(0)]

NoYearly == [total |-> << >>, stock |-> << >>, crypto |-> << >>, cash |-> << >>]

NoProbe ==
  [year |-> 0, start |-> NoHoldings, afterReturns |-> NoHoldings,
   afterBalance |-> NoHoldings, afterUpper |-> NoHoldings,
   afterLower |-> NoHoldings, final |-> NoHoldings, costs |-> NoCosts]

NoValidation == [isValid |-> TRUE, maxEndAge |-> 0, message |-> "none"]

MaxRuns == 2

Init ==
  /\ params \in ParamSets
  /\ pc = "idle"
  /\ sim = 0
  /\ year = 0
  /\ hold = NoHoldings
  /\ costs = NoCosts
  /\ traj = NoYearly
  /\ results = << >>
  /\ chartData = << >>
  /\ chartYear = 0
  /\ validation = NoValidation
  /\ probe = NoProbe
  /\ prev = << >>
  /\ runs = 0
  /\ storage = NoItem
  /\ savedSettings = << >>
  /\ savedAs = << >>
  /\ notice = NoNotice
  /\ clock = 0
  /\ edits = 0
  /\ advice = NoAdvice

\* useSimulation.runSimulation: dispatch on the method; the second and later
\* calls replace the previous simulationData
runSimulation ==
  /\ pc \in {"idle", "done"}
  /\ runs < MaxRuns
  /\ pc = "done" => params.simulationMethod = "historical"
  /\ runs' = runs + 1
  /\ prev' = chartData
  /\ pc' = IF params.simulationMethod = "montecarlo" THEN "mc" ELSE "historical"
  /\ sim' = 0 /\ year' = 0 /\ hold' = NoHoldings /\ costs' = NoCosts
  /\ traj' = NoYearly /\ results' = << >> /\ chartData' = << >>
  /\ chartYear' = 0 /\ validation' = NoValidation /\ probe' = NoProbe
  /\ UNCHANGED <<settingsVars, advice, params>>

\* the tax rate x of a rate given as the multiplier 1 + x
taxFraction(rate) == Sub(rate, Num(1))

\* paramsFraction of paramsMultiplier: the same parameters with both tax
\* rates given as fractions
fractionParams(p) ==
  [p EXCEPT !.stockTaxRate = taxFraction(@), !.cryptoTaxRate = taxFraction(@)]

\* a zero-risk Monte Carlo run with multiplier tax rates is followed by the
\* run of the same parameters with fraction tax rates
runFractionTwin ==
  /\ pc = "done"
  /\ runs < MaxRuns
  /\ params.simulationMethod = "montecarlo"
  /\ params.investmentRisk = Num(0) /\ params.cryptoRisk = Num(0)
  /\ Gt(params.stockTaxRate, Num(1)) /\ Gt(params.cryptoTaxRate, Num(1))
  /\ params' = fractionParams(params)
  /\ runs' = runs + 1
  /\ prev' = chartData
  /\ pc' = "mc"
  /\ sim' = 0 /\ year' = 0 /\ hold' = NoHoldings /\ costs' = NoCosts
  /\ traj' = NoYearly /\ results' = << >> /\ chartData' = << >>
  /\ chartYear' = 0 /\ validation' = NoValidation /\ probe' = NoProbe
  /\ UNCHANGED <<settingsVars, advice>>

\* runMonteCarloSimulation up to the first trajectory
mcStart ==
  /\ pc = "mc"
  /\ pc' = IF 0 < params.numSimulations THEN "mc_begin" ELSE "mc_chart"
  /\ UNCHANGED <<settingsVars, advice, params, sim, year, hold, costs, traj, results, chartData,
                 chartYear, validation, probe, prev, runs>>

\* for (let i = 0; i < numSimulations; i++): the initialisation of trajectory i
mcBeginTrajectory ==
  /\ pc = "mc_begin"
  /\ hold' = initialHoldings(params)
  /\ costs' = initialCosts(params)
  /\ traj' = initialYearly(initialHoldings(params))
  /\ year' = 1
  /\ pc' = IF 1 <= simulationPeriod(params) THEN "mc_year" ELSE "mc_end"
  /\ UNCHANGED <<settingsVars, advice, params, sim, results, chartData, chartYear, validation,
                 probe, prev, runs>>

\* stockAnnualReturn with the random factor not scaled by the risk band
stockAnnualReturnUnscaled(p, stockRandomFactor) ==
  Add(p.investmentReturnRate, stockRandomFactor)

\* investmentReturnRate + stockRandomFactor * investmentRisk
stockAnnualReturn(p, stockRandomFactor) ==
  Add(p.investmentReturnRate, Mul(stockRandomFactor, p.investmentRisk))

\* cryptoReturnRate + cryptoRandomFactor * cryptoRisk
cryptoAnnualReturn(p, cryptoRandomFactor) ==
  Add(p.cryptoReturnRate, Mul(cryptoRandomFactor, p.cryptoRisk))

\* one iteration of the Monte Carlo year loop, with the two random factors
\* it draws
mcYear ==
  /\ pc = "mc_year"
  /\ \E stockRandomFactor \in RandomFactors, cryptoRandomFactor \in RandomFactors :
       \E b \in {yearBody(params, year, hold, costs,
                            stockAnnualReturn(params, stockRandomFactor),
                            cryptoAnnualReturn(params, cryptoRandomFactor))} :
           /\ probe' = b
           /\ hold' = b.final
           /\ traj' = pushYearly(traj, b.final)
           /\ costs' = applyInflation(b.costs, params.inflationRate)
  /\ year' = year + 1
  /\ pc' = IF year + 1 <= simulationPeriod(params) THEN "mc_year" ELSE "mc_end"
  /\ UNCHANGED <<settingsVars, advice, params, sim, results, chartData, chartYear, validation,
                 prev, runs>>

\* results.push(yearlyTotalAssets); ... ; i++
mcEndTrajectory ==
  /\ pc = "mc_end"
  /\ results' = Append(results, traj)
  /\ sim' = sim + 1
  /\ pc' = IF sim + 1 < params.numSimulations THEN "mc_begin" ELSE "mc_chart"
  /\ UNCHANGED <<settingsVars, advice, params, year, hold, costs, traj, chartData, chartYear,
                 validation, probe, prev, runs>>

\* one iteration of the Monte Carlo result loop
mcChartYear ==
  /\ pc = "mc_chart"
  /\ chartYear <= simulationPeriod(params)
  /\ \E total \in sortResults(outcomesOf(column(results, "total"), chartYear)),
        stock \in sortResults(outcomesOf(column(results, "stock"), chartYear)),
        crypto \in sortResults(outcomesOf(column(results, "crypto"), chartYear)),
        cash \in sortResults(outcomesOf(column(results, "cash"), chartYear)) :
       chartData' = Append(chartData,
                           mcYearData(params, chartYear, total, stock, crypto, cash))
  /\ chartYear' = chartYear + 1
  /\ pc' = IF chartYear + 1 <= simulationPeriod(params) THEN "mc_chart" ELSE "done"
  /\ UNCHANGED <<settingsVars, advice, params, sim, year, hold, costs, traj, results, validation,
                 probe, prev, runs>>

\* const historicalDataLength = 30
historicalDataLength == 30

\* the number of start offsets the historical method runs
actualStartYears(p) ==
  LET maxStartYears == IF 10 < historicalDataLength THEN 10 ELSE historicalDataLength
  IN  IF simulationPeriod(p) <= historicalDataLength
      THEN maxStartYears
      ELSE (IF 5 < historicalDataLength THEN 5 ELSE historicalDataLength)

\* runHistoricalSimulation up to the first trajectory: the period check
historicalStart ==
  /\ pc = "historical"
  /\ validation' = validateSimulationPeriod(params.initialAge, params.endAge)
  /\ pc' = IF ~validation'.isValid THEN "done"
           ELSE IF 0 < actualStartYears(params) THEN "hist_begin" ELSE "hist_chart"
  /\ UNCHANGED <<settingsVars, advice, params, sim, year, hold, costs, traj, results, chartData,
                 chartYear, probe, prev, runs>>

\* for (let startYear = 0; ...): the initialisation of the trajectory of
\* start offset sim
historicalBeginTrajectory ==
  /\ pc = "hist_begin"
  /\ hold' = initialHoldings(params)
  /\ costs' = initialCosts(params)
  /\ traj' = initialYearly(initialHoldings(params))
  /\ year' = 1
  /\ pc' = IF 1 <= simulationPeriod(params) THEN "hist_year" ELSE "hist_end"
  /\ UNCHANGED <<settingsVars, advice, params, sim, results, chartData, chartYear, validation,
                 probe, prev, runs>>

\* the index counted from the year number, not from the years elapsed
dataIndexFromOne(startYear, yr) == (startYear + yr) % historicalDataLength

dataIndex(startYear, yr) == (startYear + yr - 1) % historicalDataLength

\* the sample of one historical year
historicalSample(p, startYear, yr) ==
  LET index == dataIndex(startYear, yr)
  IN  [stockReturn |-> OrElse(At(getStockData(p.stockRegion), index), Num(0)),
       cryptoReturn |-> OrElse(At(cryptoReturns, index), Num(0)),
       inflationRate |->
         OrElse(At(getInflationData(p.inflationRegion), index), Norm(2, 100))]

\* one iteration of the historical year loop: continue on a NaN sample,
\* break on a NaN holding, otherwise push the snapshot and inflate
historicalYear ==
  /\ pc = "hist_year"
  /\ \E s \in {historicalSample(params, sim, year)},
        next \in {IF year + 1 <= simulationPeriod(params) THEN "hist_year"
                  ELSE "hist_end"} :
       \E b \in {yearBody(params, year, hold, costs, s.stockReturn,
                           s.cryptoReturn)} :
         IF IsNaN(s.stockReturn) \/ IsNaN(s.cryptoReturn) \/ IsNaN(s.inflationRate)
         THEN /\ year' = year + 1
              /\ pc' = next
              /\ UNCHANGED <<hold, costs, traj, probe>>
         ELSE IF \/ IsNaN(totalAssets(b.final)) \/ IsNaN(b.final.stock)
                 \/ IsNaN(b.final.crypto) \/ IsNaN(b.final.cash)
         THEN /\ probe' = b
              /\ hold' = b.final
              /\ costs' = b.costs
              /\ pc' = "hist_end"
              /\ UNCHANGED <<year, traj>>
         ELSE /\ probe' = b
              /\ hold' = b.final
              /\ traj' = pushYearly(traj, b.final)
              /\ costs' = applyInflation(b.costs, s.inflationRate)
              /\ year' = year + 1
              /\ pc' = next
  /\ UNCHANGED <<settingsVars, advice, params, sim, results, chartData, chartYear, validation,
                 prev, runs>>

\* allSimulations.push(yearlyTotalAssets); ... ; startYear++
historicalEndTrajectory ==
  /\ pc = "hist_end"
  /\ results' = Append(results, traj)
  /\ sim' = sim + 1
  /\ pc' = IF sim + 1 < actualStartYears(params) THEN "hist_begin" ELSE "hist_chart"
  /\ UNCHANGED <<settingsVars, advice, params, year, hold, costs, traj, chartData, chartYear,
                 validation, probe, prev, runs>>

\* one iteration of the historical result loop: a year without outcomes is
\* skipped
historicalChartYear ==
  /\ pc = "hist_chart"
  /\ chartYear <= simulationPeriod(params)
  /\ \E yearlyOutcomes \in {definedOutcomes(column(results, "total"), chartYear)} :
         IF Len(yearlyOutcomes) = 0
         THEN UNCHANGED chartData
         ELSE \E total \in sortResults(yearlyOutcomes),
                 stock \in sortResults(
                            definedOutcomes(column(results, "stock"), chartYear)),
                 crypto \in sortResults(
                            definedOutcomes(column(results, "crypto"), chartYear)),
                 cash \in sortResults(
                            definedOutcomes(column(results, "cash"), chartYear)) :
                chartData' =
                  Append(chartData,
                         historicalYearData(params, chartYear, total, stock,
                                            crypto, cash))
  /\ chartYear' = chartYear + 1
  /\ pc' = IF chartYear + 1 <= simulationPeriod(params) THEN "hist_chart" ELSE "done"
  /\ UNCHANGED <<settingsVars, advice, params, sim, year, hold, costs, traj, results, validation,
                 probe, prev, runs>>

\* AIConfig.provider
Providers == {"ollama", "openai", "gemini", "local"}

\* what the provider's endpoint does with the request: fetch rejects, the
\* status is not OK, the reply holds no content, the content is no JSON,
\* the content is the JSON of an advice
Replies == {"network error", "not ok", "no content", "unparseable", "advice"}

\* getFallbackAdvice
getFallbackAdvice == [kind |-> "fallback", confidence |-> Norm(6, 10)]

\* JSON.parse of a content that is the JSON of an advice
parsedAdvice == [kind |-> "parsed", confidence |-> Norm(85, 100)]

\* buildAnalysisPrompt: reading midResult.age throws when results is empty
promptThrows(yearlyData) == Len(yearlyData) = 0

\* callOllama, callOpenAI, callGemini: everything thrown inside the try
\* block ends in the fallback advice
callProvider(reply) == IF reply = "advice" THEN parsedAdvice ELSE getFallbackAdvice

\* callLocalModel
callLocalModel == getFallbackAdvice

\* the promise returned by generateAdvice
advicePromise(provider, reply, yearlyData) ==
  IF promptThrows(yearlyData)
  THEN [state |-> "rejected", provider |-> provider, reply |-> reply]
  ELSE [state |-> "resolved", provider |-> provider, reply |-> reply,
        value |-> IF provider = "local" THEN callLocalModel ELSE callProvider(reply)]

\* AIAdvisorService.generateAdvice on the result sequence of the finished run
generateAdvice ==
  /\ pc = "done"
  /\ \E provider \in Providers, reply \in Replies :
       advice' = advicePromise(provider, reply, chartData)
  /\ pc' = "advised"
  /\ UNCHANGED <<settingsVars, params, sim, year, hold, costs, traj, results,
                 chartData, chartYear, validation, probe, prev, runs>>

Next ==
  \/ runSimulation
  \/ runFractionTwin
  \/ mcStart
  \/ mcBeginTrajectory
  \/ mcYear
  \/ mcEndTrajectory
  \/ mcChartYear
  \/ historicalStart
  \/ historicalBeginTrajectory
  \/ historicalYear
  \/ historicalEndTrajectory
  \/ historicalChartYear
  \/ generateAdvice

Spec == Init /\ [][Next]_vars

TypeOK == pc \in {"idle", "mc", "mc_begin", "mc_year", "mc_end", "mc_chart",
                  "historical", "hist_begin", "hist_year", "hist_end",
                  "hist_chart", "done", "advised"}

----------------------------------------------------------------------------
(* The historical lookup on its own: every start offset of the data and    *)
(* every simulated year                                                    *)

\* the start offsets of the data
StartOffsets == 0..(historicalDataLength - 1)

\* the last simulated year that is looked up
MaxLookupYear == 100

\* no year has been looked up
NoLookup == [year |-> 0]

LookupInit ==
  /\ params \in {[WorkingParams EXCEPT !.simulationMethod = "historical"]}
  /\ pc = "lookup"
  /\ sim \in StartOffsets
  /\ year = 1
  /\ hold = NoHoldings
  /\ costs = NoCosts
  /\ traj = NoYearly
  /\ results = << >>
  /\ chartData = << >>
  /\ chartYear = 0
  /\ validation = NoValidation
  /\ probe = NoLookup
  /\ prev = << >>
  /\ runs = 0
  /\ storage = NoItem
  /\ savedSettings = << >>
  /\ savedAs = << >>
  /\ notice = NoNotice
  /\ clock = 0
  /\ edits = 0
  /\ advice = NoAdvice

\* the lookup of one iteration of the historical year loop: dataIndex and
\* the three values read
lookupYear ==
  /\ pc = "lookup"
  /\ year <= MaxLookupYear
  /\ probe' = [year |-> year, startYear |-> sim,
               dataIndex |-> dataIndex(sim, year),
               before |-> IF year = 1 THEN dataIndex(sim, year) ELSE probe.dataIndex,
               sample |-> historicalSample(params, sim, year)]
  /\ year' = year + 1
  /\ UNCHANGED <<settingsVars, advice, params, pc, sim, hold, costs, traj, results,
                 chartData, chartYear, validation, prev, runs>>

LookupNext == lookupYear

LookupSpec == LookupInit /\ [][LookupNext]_vars

----------------------------------------------------------------------------
(* Named settings: the form of InputPanel and the SettingsManager panel     *)

\* the largest exponent of ten that a finite number can carry
\* (Number.MAX_VALUE is about 1.797 * 10^308)
MaxExponent == 308

\* the exponent of ten of JPY_UNIT = 10000
JpyUnitExponent == 4

JPY_UNIT == 10000

\* the texts typed into a field in units of ten thousand yen, as mantissa
\* and exponent of ten: "3", "1e305"; a number input hands both to the
\* handler, and parseFloat gives a finite number for each
ManYenTexts == { [m |-> 3, e |-> 0], [m |-> 1, e |-> 305] }

\* parseFloat(value) * JPY_UNIT: the product of two finite numbers is
\* Infinity when it exceeds the largest finite number
timesJpyUnit(text) ==
  IF text.e + JpyUnitExponent > MaxExponent THEN <<Sign(text.m), 0>>
  ELSE Num(text.m * (10 ^ text.e) * JPY_UNIT)

\* the fields edited in units of ten thousand yen
ManYenFields == {"initialCashValue"}

SimulationMethods == {"montecarlo", "historical"}

StockRegions == {"sp500", "nikkei", "world"}

InflationRegions == {"japan", "us", "world"}

\* the fields of SimulationParams that hold a string
StringFields ==
  {"liquidationPriority", "simulationMethod", "inflationRegion", "stockRegion"}

\* the fields of SimulationParams that hold a number kept as a fraction
FractionFields ==
  {"entertainmentExpensesDeclineRate", "inflationRate", "investmentReturnRate",
   "investmentRisk", "cryptoReturnRate", "cryptoRisk", "stockTaxRate",
   "cryptoTaxRate", "cashUpperLimit", "cashLowerLimit", "cryptoLowerLimit",
   "stockLowerLimit", "initialStockValue", "initialCryptoValue",
   "initialCashValue", "livingExpenses", "entertainmentExpenses",
   "housingMaintenance", "medicalCare", "housingLoan", "salary",
   "realEstateIncome"}

\* the value null, which is no number
Null == << >>

\* JSON.stringify of one field: a string becomes a JSON string, a finite
\* number a JSON number, and null, NaN, Infinity and -Infinity become null
stringifyField(f, v) ==
  IF f \in StringFields THEN [type |-> "string", value |-> v]
  ELSE IF f \in FractionFields /\ (v = Null \/ ~IsFiniteNum(v))
       THEN [type |-> "null"]
  ELSE [type |-> "number", value |-> v]

\* JSON.parse of one field
parseField(j) == IF j.type = "null" THEN Null ELSE j.value

\* JSON.stringify of a parameter set
stringifyParams(p) == [f \in DOMAIN p |-> stringifyField(f, p[f])]

\* JSON.parse of a parameter set
parseParams(j) == [f \in DOMAIN j |-> parseField(j[f])]

\* JSON.stringify(settings)
stringify(settings) ==
  [i \in 1..Len(settings) |->
     [name |-> [type |-> "string", value |-> settings[i].name],
      params |-> stringifyParams(settings[i].params),
      createdAt |-> [type |-> "string", value |-> settings[i].createdAt]]]

\* JSON.parse(saved)
parse(text) ==
  [i \in 1..Len(text) |->
     [name |-> parseField(text[i].name),
      params |-> parseParams(text[i].params),
      createdAt |-> parseField(text[i].createdAt)]]

\* getSavedSettings: the parsed item, or the empty list when there is none
getSavedSettings(item) == IF item.stored THEN parse(item.text) ELSE << >>

\* saveSettings
saveSettings(settings) == [stored |-> TRUE, text |-> stringify(settings)]

\* settings.findIndex(s => s.name === name), counted from 1, 0 for none
findIndex(settings, name) ==
  IF \E i \in 1..Len(settings) : settings[i].name = name
  THEN CHOOSE i \in 1..Len(settings) :
         /\ settings[i].name = name
         /\ \A k \in 1..(i - 1) : settings[k].name # name
  ELSE 0

\* saveSetting that pushes the new setting whatever the names stored
putSettingAlways(settings, newSetting, existingIndex) == Append(settings, newSetting)

\* saveSetting: overwrite the setting of that name or append a new one
putSetting(settings, newSetting, existingIndex) ==
  IF existingIndex >= 1
  THEN [settings EXCEPT ![existingIndex] = newSetting]
  ELSE Append(settings, newSetting)

saveSetting(item, name, p, createdAt) ==
  saveSettings(putSetting(getSavedSettings(item),
                          [name |-> name, params |-> p, createdAt |-> createdAt],
                          findIndex(getSavedSettings(item), name)))

\* settings.filter(s => s.name !== name)
RECURSIVE filterName(_, _)
filterName(settings, name) ==
  IF settings = << >> THEN << >>
  ELSE IF Head(settings).name # name
       THEN <<Head(settings)>> \o filterName(Tail(settings), name)
       ELSE filterName(Tail(settings), name)

\* deleteSetting
deleteSetting(item, name) == saveSettings(filterName(getSavedSettings(item), name))

\* the texts typed into the name field, character by character
NameTexts == { <<" ">>, <<"a">>, <<"b">>, <<" ", "a">> }

\* String.prototype.trim
RECURSIVE trimStart(_)
trimStart(text) ==
  IF text # << >> /\ Head(text) = " " THEN trimStart(Tail(text)) ELSE text

RECURSIVE trimEnd(_)
trimEnd(text) ==
  IF text # << >> /\ text[Len(text)] = " "
  THEN trimEnd(SubSeq(text, 1, Len(text) - 1)) ELSE text

trim(text) == trimEnd(trimStart(text))

\* the number of saves and of edits of the form that are followed
MaxSaves == 3

MaxEdits == 1

\* new Date().toISOString() of the n-th save
toISOString(n) == n

\* the parameters saved under a name, with that name forgotten or replaced
forget(saved, name) == [n \in DOMAIN saved \ {name} |-> saved[n]]

remember(saved, name, p) ==
  [n \in DOMAIN saved \cup {name} |-> IF n = name THEN p ELSE saved[n]]

\* the panel is mounted in a browser that holds no settings yet
SettingsInit ==
  /\ params \in {WorkingParams}
  /\ pc = "idle"
  /\ sim = 0
  /\ year = 0
  /\ hold = NoHoldings
  /\ costs = NoCosts
  /\ traj = NoYearly
  /\ results = << >>
  /\ chartData = << >>
  /\ chartYear = 0
  /\ validation = NoValidation
  /\ probe = NoProbe
  /\ prev = << >>
  /\ runs = 0
  /\ storage = NoItem
  /\ savedSettings = getSavedSettings(NoItem)
  /\ savedAs = << >>
  /\ notice = NoNotice
  /\ clock = 0
  /\ edits = 0
  /\ advice = NoAdvice

engineVars == <<pc, sim, year, hold, costs, traj, results, chartData,
                chartYear, validation, probe, prev, runs, advice>>

\* InputPanel.handleManYenChange
handleManYenChange ==
  \E field \in ManYenFields, value \in ManYenTexts :
    /\ edits < MaxEdits
    /\ edits' = edits + 1
    /\ params' = [params EXCEPT ![field] = timesJpyUnit(value)]
    /\ notice' = NoNotice
    /\ UNCHANGED <<engineVars, storage, savedSettings, savedAs, clock>>

\* InputPanel: the select of the simulation method
selectSimulationMethod ==
  \E newMethod \in SimulationMethods :
    /\ edits < MaxEdits
    /\ edits' = edits + 1
    /\ params' = [params EXCEPT !.simulationMethod = newMethod]
    /\ notice' = NoNotice
    /\ UNCHANGED <<engineVars, storage, savedSettings, savedAs, clock>>

\* InputPanel: the select of the stock region
selectStockRegion ==
  \E region \in StockRegions :
    /\ edits < MaxEdits
    /\ edits' = edits + 1
    /\ params' = [params EXCEPT !.stockRegion = region]
    /\ notice' = NoNotice
    /\ UNCHANGED <<engineVars, storage, savedSettings, savedAs, clock>>

\* InputPanel: the select of the inflation region
selectInflationRegion ==
  \E region \in InflationRegions :
    /\ edits < MaxEdits
    /\ edits' = edits + 1
    /\ params' = [params EXCEPT !.inflationRegion = region]
    /\ notice' = NoNotice
    /\ UNCHANGED <<engineVars, storage, savedSettings, savedAs, clock>>

\* the ages typed into the two age fields
AgeTexts == {70, 120, 150}

\* the largest end age the panel accepts
maxAge == 120

\* Math.max and Math.min of two integers
IntMax(a, b) == IF a >= b THEN a ELSE b

IntMin(a, b) == IF a <= b THEN a ELSE b

\* the end age after an edit of the initial age to value
adjustedEndAge(endAge, value) ==
  IF endAge <= value \/ endAge > maxAge THEN IntMin(value + 1, maxAge) ELSE endAge

\* InputPanel: onChange of the initial age field
initialAgeChange ==
  \E value \in AgeTexts :
    /\ edits < MaxEdits
    /\ edits' = edits + 1
    /\ params' = [params EXCEPT !.initialAge = value,
                                !.endAge = adjustedEndAge(params.endAge, value)]
    /\ notice' = NoNotice
    /\ UNCHANGED <<engineVars, storage, savedSettings, savedAs, clock>>

\* the end age typed as value, clamped
clampedValue(value, initialAge) == IntMin(IntMax(value, initialAge + 1), maxAge)

\* InputPanel: onChange of the end age field
endAgeChange ==
  \E value \in AgeTexts :
    /\ edits < MaxEdits
    /\ edits' = edits + 1
    /\ params' = [params EXCEPT !.endAge = clampedValue(value, params.initialAge)]
    /\ notice' = NoNotice
    /\ UNCHANGED <<engineVars, storage, savedSettings, savedAs, clock>>

\* SettingsManager.handleSaveSetting with an empty name: only the alert
handleSaveSettingUnnamed ==
  /\ \E text \in NameTexts : trim(text) = << >>
  /\ notice' = [type |-> "enter a name"]
  /\ UNCHANGED <<params, engineVars, storage, savedSettings, savedAs, clock, edits>>

\* SettingsManager.handleSaveSetting
handleSaveSetting ==
  \E text \in NameTexts :
    /\ trim(text) # << >>
    /\ clock < MaxSaves
    /\ clock' = clock + 1
    /\ storage' = saveSetting(storage, trim(text), params, toISOString(clock'))
    /\ savedSettings' = getSavedSettings(storage')
    /\ savedAs' = remember(savedAs, trim(text), params)
    /\ notice' = [type |-> "saved", name |-> trim(text)]
    /\ UNCHANGED <<params, engineVars, edits>>

\* SettingsManager.handleLoadSetting: onLoadSetting is InputPanel's setParams
handleLoadSetting ==
  \E i \in 1..Len(savedSettings) :
    /\ params' = savedSettings[i].params
    /\ notice' = [type |-> "loaded", name |-> savedSettings[i].name]
    /\ UNCHANGED <<engineVars, storage, savedSettings, savedAs, clock, edits>>

\* SettingsManager.handleDeleteSetting, confirmed
handleDeleteSetting ==
  \E i \in 1..Len(savedSettings) :
    /\ storage' = deleteSetting(storage, savedSettings[i].name)
    /\ savedSettings' = getSavedSettings(storage')
    /\ savedAs' = forget(savedAs, savedSettings[i].name)
    /\ notice' = [type |-> "deleted", name |-> savedSettings[i].name]
    /\ UNCHANGED <<params, engineVars, clock, edits>>

\* SettingsManager.handleDeleteSetting, not confirmed: nothing is done
handleDeleteSettingCancelled ==
  /\ \E i \in 1..Len(savedSettings) :
       notice' = [type |-> "not deleted", name |-> savedSettings[i].name]
  /\ UNCHANGED <<params, engineVars, storage, savedSettings, savedAs, clock, edits>>

SettingsNext ==
  \/ handleManYenChange
  \/ selectSimulationMethod
  \/ selectStockRegion
  \/ selectInflationRegion
  \/ initialAgeChange
  \/ endAgeChange
  \/ handleSaveSettingUnnamed
  \/ handleSaveSetting
  \/ handleLoadSetting
  \/ handleDeleteSetting
  \/ handleDeleteSettingCancelled

SettingsSpec == SettingsInit /\ [][SettingsNext]_vars

\* the SettingsManager panel with the method select as the only edit of the
\* form
StoreNext ==
  \/ selectSimulationMethod
  \/ handleSaveSettingUnnamed
  \/ handleSaveSetting
  \/ handleLoadSetting
  \/ handleDeleteSetting
  \/ handleDeleteSettingCancelled

StoreSpec == SettingsInit /\ [][StoreNext]_vars

----------------------------------------------------------------------------
(* Properties                                                              *)

isMonteCarlo == params.simulationMethod = "montecarlo"

isHistorical == params.simulationMethod = "historical"

period == simulationPeriod(params)

\* C1: a Monte Carlo run with numSimulations >= 1 and endAge > initialAge
\* returns exactly endAge - initialAge + 1 entries, entry k with year = k and
\* age = initialAge + k
MonteCarloEntries ==
  (pc = "done" /\ isMonteCarlo /\ params.numSimulations >= 1
     /\ params.endAge > params.initialAge)
  => /\ Len(chartData) = params.endAge - params.initialAge + 1
     /\ \A k \in 0..(Len(chartData) - 1) :
          /\ chartData[k + 1].year = k
          /\ chartData[k + 1].age = params.initialAge + k

\* a one-year Monte Carlo run has returned its two entries
MonteCarloOneYearDone ==
  /\ pc = "done" /\ isMonteCarlo /\ period = 1
  /\ Len(chartData) = 2
  /\ chartData[2].year = 1 /\ chartData[2].age = params.initialAge + 1

\* C2 (as claimed): a historical run of any period from 1 to 100 years
\* returns period + 1 entries with age increasing by 1 from initialAge
HistoricalEntries ==
  (pc = "done" /\ isHistorical /\ period >= 1 /\ period <= 100)
  => /\ Len(chartData) = period + 1
     /\ \A k \in 0..(Len(chartData) - 1) :
          chartData[k + 1].age = params.initialAge + k

percentilesOrdered(d) ==
  /\ Le(d.p10, d.p25) /\ Le(d.p25, d.median)
  /\ Le(d.median, d.p75) /\ Le(d.p75, d.p90)

\* C3 (as claimed): every returned year entry of either method has
\* p10 <= p25 <= median <= p75 <= p90
PercentilesOrdered ==
  \A k \in DOMAIN chartData : percentilesOrdered(chartData[k])

zeroRisk == params.investmentRisk = Num(0) /\ params.cryptoRisk = Num(0)

isPrefix(s, t) == Len(s) <= Len(t) /\ s = SubSeq(t, 1, Len(s))

\* C4: with both risk bands at 0 every Monte Carlo trajectory has the same
\* snapshot in every year whatever the random factors are, and the five
\* percentiles of every year entry are equal
ZeroRiskIdentical ==
  (isMonteCarlo /\ zeroRisk)
  => /\ \A i, j \in DOMAIN results : results[i] = results[j]
     /\ (results # << >> /\ pc \in {"mc_year", "mc_end"})
          => \A f \in {"total", "stock", "crypto", "cash"} :
               isPrefix(traj[f], results[1][f])
     /\ \A k \in DOMAIN chartData :
          LET d == chartData[k]
          IN  d.p10 = d.p25 /\ d.p25 = d.median /\ d.median = d.p75
                /\ d.p75 = d.p90

\* a zero-risk Monte Carlo run of two or more trajectories with a non-zero
\* expected return has returned
ZeroRiskDone ==
  /\ pc = "done" /\ isMonteCarlo /\ zeroRisk
  /\ params.cryptoReturnRate # Num(0)
  /\ Len(results) >= 2 /\ period >= 2
  /\ Len(chartData) = period + 1
  /\ chartData[2].median # chartData[1].median

\* C5: the historical method is deterministic: a second run with the same
\* parameters returns the sequence of the first, under every liquidation
\* priority
HistoricalDeterministic ==
  (pc = "done" /\ isHistorical /\ runs >= 2) => chartData = prev

\* a second historical run under the 'random' priority, with a floor
\* liquidation in it, has returned
HistoricalSecondRunDone ==
  /\ pc = "done" /\ isHistorical /\ runs >= 2
  /\ params.liquidationPriority = "random"
  /\ Len(chartData) >= 2
  /\ probe.year >= 1
  /\ Lt(probe.afterUpper.cash, params.cashLowerLimit)
  /\ probe.afterLower # probe.afterUpper

\* C6 (as claimed): a run of more than 100 years is declined before any
\* trajectory is simulated and returns the empty sequence, under either
\* method
LongPeriodDeclined ==
  period > 100
  => /\ pc \notin {"mc_begin", "mc_year", "mc_end", "mc_chart",
                   "hist_begin", "hist_year", "hist_end", "hist_chart"}
     /\ results = << >>
     /\ chartData = << >>

CyclicNotice == "cyclic-reuse"

\* C7 (as claimed): validateSimulationPeriod is invalid exactly for periods
\* above 100 with maxEndAge = startAge + 100; otherwise valid with
\* maxEndAge = endAge, an empty message up to 30 years and a cyclic-reuse
\* notice from 31 to 100 years
ValidationUpTo100 ==
  validation # NoValidation
  => /\ validation.isValid = ~(period > 100)
     /\ period > 100 => validation.maxEndAge = params.initialAge + 100
     /\ period <= 100 => validation.maxEndAge = params.endAge
     /\ period <= 30 => validation.message = ""
     /\ (period > 30 /\ period <= 100) => validation.message = CyclicNotice

\* C8 (as claimed): the historical method runs one trajectory per start
\* offset, never more than 30, and exactly 30 (offsets 0..29) when the
\* period exceeds 30 years
HistoricalOffsets ==
  isHistorical
  => /\ Len(results) <= 30
     /\ sim <= 30
     /\ (pc = "done" /\ period > 30 /\ period <= 100) => Len(results) = 30

priorityAsset ==
  IF params.liquidationPriority = "crypto" THEN "crypto" ELSE "stock"

\* C9 (as claimed): when cash after income and expenses exceeds
\* cashUpperLimit, the surplus goes to the asset of liquidationPriority
\* (stock under stock-first, crypto under crypto-first) and cash becomes
\* cashUpperLimit
SurplusToPriorityAsset ==
  (probe.year >= 1 /\ Gt(probe.afterBalance.cash, params.cashUpperLimit)
     /\ params.liquidationPriority \in {"stock", "crypto"})
  => LET surplus == Sub(probe.afterBalance.cash, params.cashUpperLimit)
         other == IF priorityAsset = "crypto" THEN "stock" ELSE "crypto"
     IN  /\ probe.afterUpper.cash = params.cashUpperLimit
         /\ probe.afterUpper[priorityAsset] =
              Add(probe.afterBalance[priorityAsset], surplus)
         /\ probe.afterUpper[other] = probe.afterBalance[other]

\* C10 (as claimed): when cash is short of cashLowerLimit by s and the
\* priority asset, of tax rate t, has at least s * t above its floor, the
\* floor rule takes exactly s * t from that asset and brings cash to
\* cashLowerLimit
FloorRuleRestoresCash ==
  LET h == probe.afterUpper
      s == Sub(params.cashLowerLimit, h.cash)
      t == IF priorityAsset = "crypto" THEN params.cryptoTaxRate
           ELSE params.stockTaxRate
      floor == IF priorityAsset = "crypto" THEN params.cryptoLowerLimit
               ELSE params.stockLowerLimit
  IN  (probe.year >= 1 /\ Lt(h.cash, params.cashLowerLimit)
         /\ params.liquidationPriority \in {"stock", "crypto"}
         /\ Le(Mul(s, t), Sub(h[priorityAsset], floor)))
      => /\ probe.afterLower[priorityAsset] = Sub(h[priorityAsset], Mul(s, t))
         /\ probe.afterLower.cash = params.cashLowerLimit

\* C11 (as claimed): with zero risk, the Monte Carlo run with tax rates given
\* as multipliers 1 + x returns the same sequence as the run with the
\* fractions x
TaxNormalized ==
  (pc = "done" /\ isMonteCarlo /\ runs >= 2) => chartData = prev

\* the two runs agree when no floor liquidation takes place
TwinWithoutLiquidationDone ==
  /\ pc = "done" /\ isMonteCarlo /\ runs >= 2
  /\ chartData = prev /\ Len(chartData) >= 2

\* the year loop body runs in this step
yearStep == pc \in {"mc_year", "hist_year"} /\ probe'.year = year

\* C12 (as claimed): in every simulated year whose current age is at or
\* above entertainmentExpensesDeclineStartAge the entertainment expense is
\* multiplied by 1 - entertainmentExpensesDeclineRate, on top of the value
\* the year before left; in earlier years it is not changed
EntertainmentDeclinesByRate ==
  [][ yearStep =>
        probe'.costs.entertainment =
          IF params.initialAge + year - 1
               >= params.entertainmentExpensesDeclineStartAge
          THEN Mul(costs.entertainment,
                   Sub(Num(1), params.entertainmentExpensesDeclineRate))
          ELSE costs.entertainment ]_vars

\* the deficit of an asset under its floor
floorDeficit(value, floor) == IF Lt(value, floor) THEN Sub(floor, value) ELSE Num(0)

\* C13 (as claimed): every recorded snapshot of a year >= 1 has stock >=
\* stockLowerLimit and crypto >= cryptoLowerLimit, an asset that ends the
\* year under its floor being topped up to the floor with the deficit taken
\* from cash
AssetFloorsKept ==
  /\ \A i \in DOMAIN traj.stock :
       i >= 2 => /\ Le(params.stockLowerLimit, traj.stock[i])
                 /\ Le(params.cryptoLowerLimit, traj.crypto[i])
  /\ probe.year >= 1
       => /\ probe.final.stock =
               Add(probe.afterLower.stock,
                   floorDeficit(probe.afterLower.stock, params.stockLowerLimit))
          /\ probe.final.crypto =
               Add(probe.afterLower.crypto,
                   floorDeficit(probe.afterLower.crypto, params.cryptoLowerLimit))
          /\ probe.final.cash =
               Sub(Sub(probe.afterLower.cash,
                       floorDeficit(probe.afterLower.stock, params.stockLowerLimit)),
                   floorDeficit(probe.afterLower.crypto, params.cryptoLowerLimit))

StatFields ==
  {"median", "p90", "p75", "p25", "p10", "medianStock", "medianCrypto",
   "medianCash"}

\* C14 (as claimed): a trajectory whose holding became non-finite gives no
\* value to the statistics of that year or of a later year, and the run
\* still returns a sequence whose statistics are all finite numbers
NonFiniteKeptOut ==
  /\ \A k \in DOMAIN chartData :
       \A f \in StatFields : IsFiniteNum(chartData[k][f])
  /\ (pc = "done" /\ probe.year >= 1) => chartData # << >>

\* the value used for a series entry: the entry itself when it is finite,
\* the neutral default otherwise
handedBack(entry, used, dflt) ==
  IF IsFiniteNum(entry) THEN used = entry ELSE used = dflt

\* C15 (as claimed): the sample of every historical year is the series
\* entry unchanged when the entry is finite, an entry of exactly 0 included,
\* and the neutral default (0 return, 0.02 inflation) only otherwise
SeriesEntryHandedBack ==
  pc = "hist_year"
  => /\ handedBack(At(getStockData(params.stockRegion), dataIndex(sim, year)),
                   historicalSample(params, sim, year).stockReturn, Num(0))
     /\ handedBack(At(cryptoReturns, dataIndex(sim, year)),
                   historicalSample(params, sim, year).cryptoReturn, Num(0))
     /\ handedBack(At(getInflationData(params.inflationRegion),
                      dataIndex(sim, year)),
                   historicalSample(params, sim, year).inflationRate,
                   Norm(2, 100))

\* C16 (as claimed): in every historical year whose index lies before the
\* crypto data start, the crypto return used equals the stock return of
\* the same year
CryptoFollowsStockBeforeStart ==
  (pc = "hist_year" /\ dataIndex(sim, year) < cryptoDataStartIndex)
  => /\ At(cryptoReturns, dataIndex(sim, year))
          = At(sp500Returns, dataIndex(sim, year))
     /\ historicalSample(params, sim, year).cryptoReturn
          = historicalSample(params, sim, year).stockReturn

\* every rate, income and expense of the parameters is 0
zeroFlows ==
  /\ zeroRisk
  /\ \A f \in {"investmentReturnRate", "cryptoReturnRate", "inflationRate",
                "salary", "realEstateIncome", "livingExpenses",
                "entertainmentExpenses", "housingMaintenance", "medicalCare",
                "housingLoan"} : params[f] = Num(0)

\* the initial holdings lie inside their bounds
initialInBounds ==
  /\ Le(params.cashLowerLimit, params.initialCashValue)
  /\ Le(params.initialCashValue, params.cashUpperLimit)
  /\ Le(params.stockLowerLimit, params.initialStockValue)
  /\ Le(params.cryptoLowerLimit, params.initialCryptoValue)

\* every snapshot of the trajectory t equals the initial holdings
allInitial(t) ==
  \A i \in DOMAIN t.total :
    /\ t.stock[i] = params.initialStockValue
    /\ t.crypto[i] = params.initialCryptoValue
    /\ t.cash[i] = params.initialCashValue
    /\ t.total[i] = totalAssets(initialHoldings(params))

\* C17: with every rate, income and expense at 0 and the initial holdings
\* inside their bounds, every yearly snapshot of a Monte Carlo run equals
\* the initial holdings
ZeroFlowsUnchanged ==
  (isMonteCarlo /\ zeroFlows /\ initialInBounds)
  => /\ allInitial(traj)
     /\ \A i \in DOMAIN results : allInitial(results[i])
     /\ \A k \in DOMAIN chartData :
          /\ chartData[k].median = totalAssets(initialHoldings(params))
          /\ chartData[k].medianStock = params.initialStockValue
          /\ chartData[k].medianCrypto = params.initialCryptoValue
          /\ chartData[k].medianCash = params.initialCashValue

\* a Monte Carlo run of two or more years with no flows, cash at its upper
\* limit, stock at its floor and crypto above its floor has returned
ZeroFlowsDone ==
  /\ pc = "done" /\ isMonteCarlo /\ zeroFlows /\ initialInBounds
  /\ period >= 2 /\ Len(results) >= 1 /\ Len(results[1].total) = period + 1
  /\ params.initialCashValue = params.cashUpperLimit
  /\ params.initialStockValue = params.stockLowerLimit
  /\ Gt(params.initialCryptoValue, params.cryptoLowerLimit)
  /\ Len(chartData) = period + 1

\* the holdings h with the surplus moved from cash to the asset
surplusTo(h, asset, surplus) ==
  [h EXCEPT ![asset] = Add(@, surplus), !.cash = Sub(@, surplus)]

\* C18 (as claimed): under the 'random' priority the ceiling rule sends the
\* cash surplus to the one asset above its own floor when exactly one is
\* (crypto when only crypto is), to either asset when both are, and to
\* stock when neither is
RandomSurplusToQualifier ==
  (probe.year >= 1 /\ params.liquidationPriority = "random"
     /\ Gt(probe.afterBalance.cash, params.cashUpperLimit))
  => LET h == probe.afterBalance
         surplus == Sub(h.cash, params.cashUpperLimit)
         stockAbove == Gt(h.stock, params.stockLowerLimit)
         cryptoAbove == Gt(h.crypto, params.cryptoLowerLimit)
     IN  /\ (cryptoAbove /\ ~stockAbove)
              => probe.afterUpper = surplusTo(h, "crypto", surplus)
         /\ ~cryptoAbove
              => probe.afterUpper = surplusTo(h, "stock", surplus)
         /\ (cryptoAbove /\ stockAbove)
              => probe.afterUpper \in {surplusTo(h, "stock", surplus),
                                       surplusTo(h, "crypto", surplus)}

\* the inflation rate of the simulated year yr of the running trajectory
rateOfYear(yr) ==
  IF isMonteCarlo THEN params.inflationRate
  ELSE historicalSample(params, sim, yr).inflationRate

RECURSIVE inflationUpTo(_)
\* the product of 1 + inflation rate over the years before yr
inflationUpTo(yr) ==
  IF yr <= 1 THEN Num(1)
  ELSE Mul(inflationUpTo(yr - 1), Add(Num(1), rateOfYear(yr - 1)))

\* the four inflated expenses are multiplied by 1 + the rate of the year
fourExpensesGrow ==
  /\ costs'.living = Mul(costs.living, Add(Num(1), rateOfYear(year)))
  /\ costs'.entertainment =
       Mul(probe'.costs.entertainment, Add(Num(1), rateOfYear(year)))
  /\ costs'.housing = Mul(costs.housing, Add(Num(1), rateOfYear(year)))
  /\ costs'.medical = Mul(costs.medical, Add(Num(1), rateOfYear(year)))

\* the annual balance of the year of this step with the loan payment loan
balanceWithLoan(loan) ==
  Sub(probe'.afterBalance.cash, probe'.afterReturns.cash) =
    Sub(income(params, params.initialAge + year - 1, costs),
        Add(Add(Add(Add(costs.living, probe'.costs.entertainment), costs.housing),
                IF params.initialAge + year - 1 >= params.medicalCareStartAge
                THEN costs.medical ELSE Num(0)),
            IF year - 1 < params.loanDuration THEN loan ELSE Num(0)))

\* C19: at the end of every simulated year the living, entertainment,
\* housing maintenance and medical care expenses are multiplied by 1 + the
\* inflation rate of that year for the next year; the loan payment is not
\* inflated, every year within loanDuration being charged housingLoan
InflationGrowsExpenses ==
  [][ (yearStep /\ year' = year + 1)
      => /\ fourExpensesGrow
         /\ IsFiniteNum(hold.cash) => balanceWithLoan(params.housingLoan) ]_vars

\* C19 (as claimed): the loan payment too is multiplied by 1 + the inflation
\* rate of every year
InflationGrowsLoanToo ==
  [][ (yearStep /\ year' = year + 1)
      => /\ fourExpensesGrow
         /\ IsFiniteNum(hold.cash)
              => balanceWithLoan(Mul(params.housingLoan, inflationUpTo(year))) ]_vars

\* the second year of a loan has been charged after a year of inflation
SecondLoanYearCharged ==
  /\ probe.year = 2 /\ year = 3
  /\ params.loanDuration >= 2 /\ params.housingLoan # Num(0)
  /\ probe.costs.living # params.livingExpenses
  /\ costs.living # probe.costs.living
  /\ IsFiniteNum(hold.cash)

\* the last handler was handleLoadSetting, of the setting of this name
loadedName(name) == notice = [type |-> "loaded", name |-> name]

\* every number of the parameter set is finite
allFinite(p) ==
  \A f \in FractionFields \cap DOMAIN p : p[f] # Null /\ IsFiniteNum(p[f])

\* C20: saving a parameter set under a name and then loading that name gives
\* back a parameter set equal to the saved one in every field, the method
\* selector and the two region selectors included
SavedAndLoadedEqual ==
  \A name \in DOMAIN savedAs : loadedName(name) => params = savedAs[name]

\* the same for the parameter sets whose numbers are all finite
FiniteSavedAndLoadedEqual ==
  \A name \in DOMAIN savedAs :
    loadedName(name) /\ allFinite(savedAs[name]) => params = savedAs[name]

\* a setting saved with a selector changed has been loaded
SelectorsLoaded ==
  \E name \in DOMAIN savedAs :
    /\ loadedName(name)
    /\ \/ savedAs[name].simulationMethod = "historical"
       \/ savedAs[name].stockRegion # "sp500"
       \/ savedAs[name].inflationRegion # "japan"
    /\ params = savedAs[name]

\* a setting holding an infinite amount has been loaded
InfiniteLoaded ==
  \E name \in DOMAIN savedAs :
    loadedName(name) /\ savedAs[name].initialCashValue = <<1, 0>>

\* C21: after any sequence of edits of the initial age and of the end age
\* made through the input panel, initialAge < endAge <= 120
AgesOrdered == params.initialAge < params.endAge /\ params.endAge <= maxAge

\* the same while the initial age is below the largest end age
AgesOrderedBelowMaxAge == params.initialAge < maxAge => AgesOrdered

\* the end age was typed above the largest end age and has been clamped
EndAgeClamped == params.endAge = maxAge /\ params.initialAge < maxAge /\ edits = 1

\* the replies that are a network error, a non-OK status or no parseable
\* advice
FailedReplies == {"network error", "not ok", "no content", "unparseable"}

\* the promise resolved, and with the fallback advice after a failed reply
resolvedWithFallback ==
  /\ advice.state = "resolved"
  /\ advice.reply \in FailedReplies
       => advice.value = getFallbackAdvice /\ advice.value.confidence = Norm(6, 10)

\* C22: generateAdvice never rejects for a supported provider, on every
\* result sequence the engine can hand over, the empty sequence of a
\* declined run included; after a network error, a non-OK status or an
\* unparseable reply it resolves with the fallback advice (confidence 0.6)
AdviceNeverRejects == pc = "advised" => resolvedWithFallback

\* the same for the result sequences that are not empty
AdviceOnResultsNeverRejects ==
  pc = "advised" /\ chartData # << >> => resolvedWithFallback

\* the fallback advice was given for the results of a run after a failed reply
FallbackGiven ==
  /\ pc = "advised" /\ chartData # << >>
  /\ advice.provider = "openai" /\ advice.reply = "not ok"
  /\ advice.value = getFallbackAdvice

\* advice was asked for the empty result sequence of a declined run
DeclinedRunAdvised ==
  pc = "advised" /\ chartData = << >> /\ ~validation.isValid

\* the entry of a series that is used, with the default for an entry of 0
usedEntry(series, index, dflt) == OrElse(At(series, index), dflt)

\* the position reached by counting k + y - 1 entries round the data
positionOf(k, y) ==
  (k + y - 1) - historicalDataLength * ((k + y - 1) \div historicalDataLength)

\* C23: the historical lookup index is (startOffset + year - 1) mod 30: it
\* lies within 0..29 for every start offset 0..29 and every simulated year
\* 1..100, year 1 of offset k reads entry k, the entry read after entry 29
\* is entry 0, and the stock, crypto and inflation values of one year are
\* all read at that index
LookupIndexWraps ==
  probe.year >= 1
  => /\ probe.dataIndex \in 0..(historicalDataLength - 1)
     /\ probe.dataIndex = positionOf(probe.startYear, probe.year)
     /\ probe.year = 1 => probe.dataIndex = probe.startYear
     /\ probe.year > 1 /\ probe.before = historicalDataLength - 1
          => probe.dataIndex = 0
     /\ probe.year > 1 /\ probe.before < historicalDataLength - 1
          => probe.dataIndex = probe.before + 1
     /\ probe.sample.stockReturn =
          usedEntry(getStockData(params.stockRegion), probe.dataIndex, Num(0))
     /\ probe.sample.cryptoReturn = usedEntry(cryptoReturns, probe.dataIndex, Num(0))
     /\ probe.sample.inflationRate =
          usedEntry(getInflationData(params.inflationRegion), probe.dataIndex,
                    Norm(2, 100))

\* year 100 of the last start offset has been looked up, after three wraps
LastOffsetLastYear ==
  /\ probe.year = 100 /\ probe.startYear = historicalDataLength - 1
  /\ probe.dataIndex = 8

RECURSIVE reachedOutcomes(_, _)
\* the values of year yr of the trajectories that have a snapshot of it
reachedOutcomes(sims, yr) ==
  IF sims = << >> THEN << >>
  ELSE IF yr + 1 \in DOMAIN Head(sims)
       THEN <<Head(sims)[yr + 1]>> \o reachedOutcomes(Tail(sims), yr)
       ELSE reachedOutcomes(Tail(sims), yr)

\* the element at index floor(count * fraction) of the ascending values
percentileOf(values, fraction) ==
  Elem(sortAsc(values), floorOf(Len(values), fraction))

\* the entry d is read off the ascending values of its year
readOffSorted(d) ==
  /\ d.p10 = percentileOf(reachedOutcomes(column(results, "total"), d.year), Norm(1, 10))
  /\ d.p25 = percentileOf(reachedOutcomes(column(results, "total"), d.year), Norm(1, 4))
  /\ d.median = percentileOf(reachedOutcomes(column(results, "total"), d.year), Norm(1, 2))
  /\ d.p75 = percentileOf(reachedOutcomes(column(results, "total"), d.year), Norm(3, 4))
  /\ d.p90 = percentileOf(reachedOutcomes(column(results, "total"), d.year), Norm(9, 10))
  /\ d.medianStock =
       percentileOf(reachedOutcomes(column(results, "stock"), d.year), Norm(1, 2))
  /\ d.medianCrypto =
       percentileOf(reachedOutcomes(column(results, "crypto"), d.year), Norm(1, 2))
  /\ d.medianCash =
       percentileOf(reachedOutcomes(column(results, "cash"), d.year), Norm(1, 2))

\* C24: for each year, each reported percentile of total assets is the
\* element at index floor(count * fraction), fraction in {0.10, 0.25, 0.50,
\* 0.75, 0.90}, of the ascending total-asset values of the trajectories that
\* reached that year; medianStock, medianCrypto and medianCash are read the
\* same way (fraction 0.50) from each asset's own values
PercentilesReadOffSorted ==
  \A k \in DOMAIN chartData : readOffSorted(chartData[k])

\* no snapshot of a finished trajectory holds a NaN
noNaNResults ==
  \A i \in DOMAIN results : \A f \in {"total", "stock", "crypto", "cash"} :
    \A k \in DOMAIN results[i][f] : ~IsNaN(results[i][f][k])

\* the same for the runs without a NaN snapshot, and for the historical
\* method
FinitePercentilesReadOffSorted ==
  (noNaNResults \/ isHistorical) => PercentilesReadOffSorted

\* an entry was read off two trajectories with different total assets
TwoValuesReadOff ==
  /\ noNaNResults /\ Len(results) = 2 /\ Len(chartData) >= 2
  /\ results[1].total[2] # results[2].total[2]
  /\ chartData[2].p10 # chartData[2].median

\* the asset the floor rule offers the shortfall to second
secondAsset == IF params.liquidationPriority = "crypto" THEN "stock" ELSE "crypto"

\* the room of an asset above its floor
roomOf(h, asset) == Sub(h[asset], assetLowerLimit(params, asset))

\* the sale of the first asset that covers the shortfall fits into its room
firstCovers(h, shortfall) ==
  /\ Gt(roomOf(h, params.liquidationPriority), Num(0))
  /\ Le(Mul(shortfall, taxRate(params, params.liquidationPriority)),
        roomOf(h, params.liquidationPriority))

\* the part of the shortfall left when the whole room of the first asset
\* has been sold
leftByFirst(h, shortfall) ==
  IF Gt(roomOf(h, params.liquidationPriority), Num(0))
  THEN Sub(shortfall, Div(roomOf(h, params.liquidationPriority),
                          taxRate(params, params.liquidationPriority)))
  ELSE shortfall

\* the amount of the second asset sold for the shortfall left
soldOfSecond(h, left) ==
  IF Gt(left, Num(0)) /\ Gt(roomOf(h, secondAsset), Num(0))
  THEN MathMin(Mul(left, taxRate(params, secondAsset)), roomOf(h, secondAsset))
  ELSE Num(0)

\* the floor rule of h with result g sold in priority order
soldInOrder(h, g, shortfall) ==
  IF firstCovers(h, shortfall)
  THEN g[secondAsset] = h[secondAsset]
  ELSE Sub(h[secondAsset], g[secondAsset]) = soldOfSecond(h, leftByFirst(h, shortfall))

\* C25: the floor rule sells in priority order: the second asset is sold
\* only for the part of the shortfall that the first asset's room above its
\* floor could not cover, and it is left untouched whenever the first asset
\* covers the whole shortfall
SecondAssetForRemainder ==
  (/\ probe.year >= 1
   /\ Lt(probe.afterUpper.cash, params.cashLowerLimit)
   /\ params.liquidationPriority \in {"stock", "crypto"})
  => soldInOrder(probe.afterUpper, probe.afterLower,
                 Sub(params.cashLowerLimit, probe.afterUpper.cash))

\* the same with both tax rates positive
positiveTax == Gt(params.stockTaxRate, Num(0)) /\ Gt(params.cryptoTaxRate, Num(0))

TaxedSecondAssetForRemainder == positiveTax => SecondAssetForRemainder

\* the first asset did not cover the shortfall and the second was sold
SecondAssetSold ==
  /\ probe.year >= 1 /\ positiveTax
  /\ Lt(probe.afterUpper.cash, params.cashLowerLimit)
  /\ params.liquidationPriority \in {"stock", "crypto"}
  /\ ~firstCovers(probe.afterUpper, Sub(params.cashLowerLimit, probe.afterUpper.cash))
  /\ Lt(probe.afterLower[secondAsset], probe.afterUpper[secondAsset])

\* the first asset covered the shortfall
FirstAssetCovered ==
  /\ probe.year >= 1 /\ positiveTax
  /\ Lt(probe.afterUpper.cash, params.cashLowerLimit)
  /\ params.liquidationPriority \in {"stock", "crypto"}
  /\ firstCovers(probe.afterUpper, Sub(params.cashLowerLimit, probe.afterUpper.cash))
  /\ Lt(probe.afterLower[params.liquidationPriority],
        probe.afterUpper[params.liquidationPriority])

\* the names of the stored settings are pairwise distinct
namesDistinct(settings) ==
  \A i, j \in 1..Len(settings) : i # j => settings[i].name # settings[j].name

\* the setting of that name was replaced in place, the others are unchanged
replacedInPlace(old, new, name) ==
  /\ Len(new) = Len(old)
  /\ \A i \in 1..Len(old) :
       IF old[i].name = name
       THEN new[i].name = name /\ new[i].createdAt = toISOString(clock')
       ELSE new[i] = old[i]

\* exactly one setting, of that name, was appended
appendedOne(old, new, name) ==
  /\ Len(new) = Len(old) + 1
  /\ SubSeq(new, 1, Len(old)) = old
  /\ new[Len(new)].name = name /\ new[Len(new)].createdAt = toISOString(clock')

\* exactly the setting of that name was removed
removedOne(old, new, name) ==
  /\ Len(new) = Len(old) - 1
  /\ \E i \in 1..Len(old) :
       /\ old[i].name = name
       /\ new = SubSeq(old, 1, i - 1) \o SubSeq(old, i + 1, Len(old))

\* what one step of the panel does to the stored settings
storeStep(old, new) ==
  /\ namesDistinct(new)
  /\ notice'.type = "saved"
       => IF \E i \in 1..Len(old) : old[i].name = notice'.name
          THEN replacedInPlace(old, new, notice'.name)
          ELSE appendedOne(old, new, notice'.name)
  /\ notice'.type = "deleted" => removedOne(old, new, notice'.name)
  /\ notice'.type \in {"enter a name", "not deleted"} => storage' = storage

\* C26: after any sequence of saves and deletes of named settings the stored
\* names are pairwise distinct: a save under an existing name replaces that
\* entry in place and leaves the others and the count unchanged, a save
\* under a new name appends exactly one entry, a delete removes exactly the
\* named entry, and a save with an empty or whitespace-only name or a
\* cancelled delete leaves the store unchanged
StoredNamesDistinct ==
  [][storeStep(getSavedSettings(storage), getSavedSettings(storage'))]_vars

\* the first of two stored settings has been saved again under its name,
\* with another method
SavedAgainInPlace ==
  /\ notice = [type |-> "saved", name |-> <<"a">>]
  /\ Len(savedSettings) = 2
  /\ savedSettings[1].params.simulationMethod # savedSettings[2].params.simulationMethod
  /\ savedSettings[1].name = <<"a">> /\ savedSettings[1].createdAt = toISOString(3)
  /\ savedSettings[2].name = <<"b">>

\* the floor rule ran in the year of the probe
floorRuleRan == probe.year >= 1 /\ Lt(probe.afterUpper.cash, params.cashLowerLimit)

\* the cash credited by the floor rule and the amount of the assets it sold
cashCredited == Sub(probe.afterLower.cash, probe.afterUpper.cash)

amountSold ==
  Add(Sub(probe.afterUpper.stock, probe.afterLower.stock),
      Sub(probe.afterUpper.crypto, probe.afterLower.crypto))

\* C27: a floor liquidation never increases the total assets (stock +
\* crypto + cash): the cash credited by a sale is at most the amount of the
\* risk asset sold, for every tax rate, the fraction convention (0.1 for a
\* cost of 10%) included
LiquidationNeverGains ==
  floorRuleRan
  => /\ ~Gt(totalAssets(probe.afterLower), totalAssets(probe.afterUpper))
     /\ ~Gt(cashCredited, amountSold)

\* the same for tax rates given as multipliers of 1 or more
multiplierTax ==
  Le(Num(1), params.stockTaxRate) /\ Le(Num(1), params.cryptoTaxRate)

MultiplierLiquidationNeverGains == multiplierTax => LiquidationNeverGains

\* a sale under multiplier rates credited less cash than was sold
MultiplierSaleLost ==
  floorRuleRan /\ multiplierTax /\ Lt(cashCredited, amountSold)

\* every snapshot of a year >= 1 of the trajectory t has cash <= cashUpperLimit
cashUnderCeiling(t) ==
  \A i \in DOMAIN t.cash : i >= 2 => Le(t.cash[i], params.cashUpperLimit)

\* C28: when both tax rates are positive and cashLowerLimit <=
\* cashUpperLimit, every recorded snapshot of a year >= 1 has cash <=
\* cashUpperLimit: the ceiling rule clamps cash, a floor liquidation never
\* lifts cash above cashLowerLimit, and the asset floors only take cash away
CashStaysUnderCeiling ==
  (positiveTax /\ Le(params.cashLowerLimit, params.cashUpperLimit))
  => /\ cashUnderCeiling(traj)
     /\ \A i \in DOMAIN results : cashUnderCeiling(results[i])
     /\ probe.year >= 1
          => /\ Le(probe.afterUpper.cash, params.cashUpperLimit)
             /\ floorRuleRan => Le(probe.afterLower.cash, params.cashLowerLimit)
             /\ Le(probe.final.cash, probe.afterLower.cash)

\* the ceiling rule clamped the cash of a year whose snapshot was recorded
CeilingClamped ==
  /\ positiveTax /\ probe.year >= 1
  /\ Gt(probe.afterBalance.cash, params.cashUpperLimit)
  /\ Len(traj.cash) >= 2
  /\ traj.cash[Len(traj.cash)] = probe.final.cash
  /\ probe.final.cash = params.cashUpperLimit

\* a floor liquidation lifted the cash of a year whose snapshot was recorded
FloorLifted ==
  /\ positiveTax /\ floorRuleRan
  /\ Gt(probe.afterLower.cash, probe.afterUpper.cash)
  /\ Len(traj.cash) >= 2
  /\ traj.cash[Len(traj.cash)] = probe.final.cash

\* the trajectories whose value of year y reaches the statistics
contributing(y) ==
  { i \in DOMAIN results :
      y + 1 \in DOMAIN results[i].total /\ ~IsNaN(results[i].total[y + 1]) }

\* entry d holds the initial holdings in every statistic
holdsInitial(d) ==
  /\ \A f \in {"p10", "p25", "median", "p75", "p90"} :
       d[f] = totalAssets(initialHoldings(params))
  /\ d.medianStock = params.initialStockValue
  /\ d.medianCrypto = params.initialCryptoValue
  /\ d.medianCash = params.initialCashValue

\* C29: in a historical run the trajectories contributing to year y + 1 are
\* a subset of those contributing to year y (a truncated trajectory never
\* contributes again and no year is skipped inside a trajectory), so the
\* years of the returned sequence form a gap-free prefix 0..k and entry 0
\* equals the initial holdings
ContributorsShrink ==
  isHistorical
  => /\ \A y \in 0..period : contributing(y + 1) \subseteq contributing(y)
     /\ pc = "hist_year" => Len(traj.total) = year
     /\ \A i \in DOMAIN results : \A f \in {"stock", "crypto", "cash"} :
          Len(results[i][f]) = Len(results[i].total)
     /\ \A k \in DOMAIN chartData :
          /\ chartData[k].year = k - 1
          /\ contributing(k - 1) # {}
     /\ Len(chartData) >= 1 => holdsInitial(chartData[1])

\* a historical run with truncated trajectories has returned a shorter
\* sequence than its period
TruncatedPrefixReturned ==
  /\ isHistorical /\ pc = "done" /\ validation.isValid
  /\ Len(chartData) >= 1 /\ Len(chartData) < period + 1
  /\ \E i \in DOMAIN results : Len(results[i].total) < period + 1

\* stock, crypto and cash of the holdings h are finite numbers
finiteHoldings(h) ==
  IsFiniteNum(h.stock) /\ IsFiniteNum(h.crypto) /\ IsFiniteNum(h.cash)

\* every statistic of the entry d is a finite number
finiteEntry(d) ==
  \A f \in {"p10", "p25", "median", "p75", "p90", "medianStock", "medianCrypto",
             "medianCash"} : IsFiniteNum(d[f])

\* the holdings of the probed year and the reported statistics are finite
allFiniteNumbers ==
  /\ probe.year >= 1 => finiteHoldings(probe.afterLower) /\ finiteHoldings(probe.final)
  /\ \A k \in DOMAIN chartData : finiteEntry(chartData[k])

zeroTax == params.stockTaxRate = Num(0) /\ params.cryptoTaxRate = Num(0)

\* C30: a tax rate of 0 never makes a holding non-finite: when cash is below
\* cashLowerLimit and the tax rate of the asset sold is 0, the floor rule
\* divides by no zero, stock, crypto and cash stay finite, and every
\* reported statistic of the run is a finite number
ZeroTaxStaysFinite == zeroTax => allFiniteNumbers

\* the same with both tax rates positive
PositiveTaxStaysFinite == positiveTax => allFiniteNumbers

\* the floor rule ran with a tax rate of 0
ZeroTaxFloorRuleRan == zeroTax /\ floorRuleRan

====
